---- MODULE Spec2Model ----
(***************************************************************************)
(* A model of globe-vis: the GPU resource wrappers (gl_wrap.rs), the scene *)
(* (globe.rs, points.rs, vis_gl.rs), the pointer controller (mouse.rs) and *)
(* the event loop that drives them (vis_ctx.rs, vis_build.rs).             *)
(*                                                                         *)
(* The graphics context is modelled as a recording double: it holds every  *)
(* object it has handed out, how often each was deleted, what is bound,    *)
(* the uniform values of each program and the most recent draw call.       *)
(*                                                                         *)
(* Units.  Matrices hold integers.  Angles are counted in quarter turns    *)
(* and the pointer unit is the distance that ROT_SPEED turns into a half   *)
(* turn (ROT_SPEED = 2 quarter turns); the scroll unit is the distance     *)
(* that ZOOM_SPEED turns into a zoom of 1.  Rotations by quarter turns     *)
(* about the axes are exactly the signed permutation matrices, so every    *)
(* product below is computed exactly.                                      *)
(***************************************************************************)
EXTENDS Integers, Sequences, FiniteSets, TLC

VARIABLES
    target,     \* "native" or "wasm32": which cfg(target_arch) build runs
    phase,      \* position of VisBuilder::start / VisContext::run
    gl,         \* the graphics context (recording double)
    vis,        \* the VisGl struct
    built,      \* log of the Program::new_from_sources calls made so far
    lastLeft,   \* history: pressed value of the latest Left button event
    lastMove    \* history: position of the latest pointer-move event

vars == <<target, phase, gl, vis, built, lastLeft, lastMove>>

\* ------------------------------------------------------------------ bounds

\* pointer coordinates range over 0..MaxCoord
MaxCoord == 1
\* scroll values range over -MaxScroll..MaxScroll
MaxScroll == 1
\* a scroll is delivered only while the view matrix entries stay within
\* -MaxZoom..MaxZoom
MaxZoom == 2
\* a points upload holds 0..MaxFloats floats
MaxFloats == 3
\* the backend reports at most this many uniform lookups as not found
MaxLookupFailures == 1
\* an info log holds at most MaxLog bytes
MaxLog == 1
\* get_icosphere is called with at most MaxIterations iterations
MaxIterations == 2
\* subdivide_icosphere is called alone on at most MaxTriangles triangles
MaxTriangles == 2

Coords == 0..MaxCoord
ScrollValues == (-MaxScroll)..MaxScroll
PointData == 0..MaxFloats

\* `let x = e; F(x)`: the bound value is computed once
Let(x, F(_)) == F(x)

\* ---------------------------------------------------------------- glam Mat4

\* a matrix from its entry function, built entry by entry
Mat4(e(_, _)) ==
    << <<e(1, 1), e(1, 2), e(1, 3), e(1, 4)>>,
       <<e(2, 1), e(2, 2), e(2, 3), e(2, 4)>>,
       <<e(3, 1), e(3, 2), e(3, 3), e(3, 4)>>,
       <<e(4, 1), e(4, 2), e(4, 3), e(4, 4)>> >>

\* Mat4::IDENTITY
IDENTITY ==
    << <<1, 0, 0, 0>>, <<0, 1, 0, 0>>, <<0, 0, 1, 0>>, <<0, 0, 0, 1>> >>

\* Mat4::mul_mat4
mul_mat4(a, b) ==
    LET e(i, j) == a[i][1] * b[1][j] + a[i][2] * b[2][j]
                   + a[i][3] * b[3][j] + a[i][4] * b[4][j]
    IN  Mat4(e)

\* Mat4::inverse, for the matrices it is applied to: the model matrix is
\* IDENTITY times rotations, whose inverse is the transpose (ModelIsRotation
\* checks that this is an inverse in every reachable state)
inverse(m) ==
    LET e(i, j) == m[j][i]
    IN  Mat4(e)

\* Mat4::transform_vector3: the upper 3x3 part applied to a direction
transform_vector3(m, v) ==
    << m[1][1] * v[1] + m[1][2] * v[2] + m[1][3] * v[3],
       m[2][1] * v[1] + m[2][2] * v[2] + m[2][3] * v[3],
       m[3][1] * v[1] + m[3][2] * v[2] + m[3][3] * v[3] >>

\* Vec3::X, Vec3::Y
Vec3X == <<1, 0, 0>>
Vec3Y == <<0, 1, 0>>

\* cosine and sine of q quarter turns
Cos4(q) == CASE q % 4 = 0 -> 1 [] q % 4 = 1 -> 0 [] q % 4 = 2 -> -1 [] OTHER -> 0
Sin4(q) == CASE q % 4 = 0 -> 0 [] q % 4 = 1 -> 1 [] q % 4 = 2 -> 0 [] OTHER -> -1

\* the cross-product matrix of a unit axis
CrossMat(a) ==
    << <<0, -a[3], a[2]>>, <<a[3], 0, -a[1]>>, <<-a[2], a[1], 0>> >>

\* Mat4::from_quat(Quat::from_axis_angle(axis, angle)): the rotation by
\* `q` quarter turns about the unit vector `axis`
from_axis_angle(axis, q) ==
    LET c == Cos4(q)
        s == Sin4(q)
        x == CrossMat(axis)
        e(i, j) == IF i = 4 \/ j = 4
                   THEN (IF i = j THEN 1 ELSE 0)
                   ELSE (IF i = j THEN c ELSE 0)
                        + (1 - c) * axis[i] * axis[j] + s * x[i][j]
    IN  Mat4(e)

\* Mat4::from_scale(Vec3::splat(s))
from_scale(s) ==
    << <<s, 0, 0, 0>>, <<0, s, 0, 0>>, <<0, 0, s, 0>>, <<0, 0, 0, 1>> >>

\* ----------------------------------------------------------------- mouse.rs

\* ROT_SPEED in quarter turns per pointer unit (a pointer unit is a half
\* turn), ZOOM_SPEED in zoom per scroll unit
ROT_SPEED == 2
ZOOM_SPEED == 1

MouseState_new == [x |-> 0, y |-> 0, dragging |-> FALSE]

MouseButtons == {"Left", "Right", "Other"}

rotate_from_mouse(mat, dx, dy) ==
    LET x_rad == dy * ROT_SPEED
        y_rad == dx * ROT_SPEED
        inv_mat == inverse(mat)
        x_axis == transform_vector3(inv_mat, Vec3X)
        y_axis == transform_vector3(inv_mat, Vec3Y)
        x_rot == from_axis_angle(x_axis, x_rad)
        y_rot == from_axis_angle(y_axis, y_rad)
    IN  mul_mat4(mat, mul_mat4(x_rot, y_rot))

zoom_from_scroll(mat, delta) ==
    LET zoom == delta * ZOOM_SPEED
        scale == from_scale(1 + zoom)
    IN  mul_mat4(mat, scale)

\* ------------------------------------------------- the graphics context

UniformNames == {"projMatrix", "viewMatrix", "modelMatrix"}

\* no value: what a uniform holds before the first push
NoValue == <<>>

NoDraw ==
    [mode |-> "none", count |-> 0, program |-> 0, array_buffer |-> 0, vertex_array |-> 0]

\* a context in which nothing has been created or bound
\* an info log: the bytes the driver wrote, at most MaxLog of them; 65 is
\* an ASCII letter, 255 a byte that no UTF-8 text contains
LogBytes == {65, 255}

Logs == UNION {[1..n -> LogBytes] : n \in 0..MaxLog}

\* `diagnostic` is the text the driver reports for a failed compile or link
NewContext ==
    [objs |-> <<>>, program |-> 0, array_buffer |-> 0, vertex_array |-> 0,
     misuse |-> FALSE, failures |-> 0, lastDraw |-> NoDraw,
     diagnostic |-> <<65>>]

\* an object as the context creates it; its handle is its index in objs
NewObject(kind) ==
    [kind |-> kind, deletes |-> 0, status |-> FALSE, size |-> 0, attrib |-> 0,
     uniforms |-> [n \in UniformNames |-> NoValue], log |-> <<>>]

Deleted(g, id) == id # 0 /\ g.objs[id].deletes > 0

\* every call that names a handle goes through here: naming a deleted
\* handle is recorded
Named(g, ids) ==
    IF \E id \in ids : Deleted(g, id) THEN [g EXCEPT !.misuse = TRUE] ELSE g

\* create_shader / create_program / create_buffer / create_vertex_array
create_object(g, kind) ==
    [g EXCEPT !.objs = Append(@, NewObject(kind))]

\* the handle of the object created last
NewestId(g) == Len(g.objs)

\* compile_shader / link_program: the backend decides the status
set_status(g, id, ok) ==
    [Named(g, {id}) EXCEPT !.objs[id].status = ok,
                           !.objs[id].log = IF ok THEN <<>> ELSE g.diagnostic]

\* get_shader_info_log / get_program_info_log
info_log(g, id) == g.objs[id].log

\* delete_shader / delete_program / delete_buffer / delete_vertex_array
delete_object(g, id) ==
    [g EXCEPT !.objs[id].deletes = IF @ < 2 THEN @ + 1 ELSE @]

use_program(g, id) == [Named(g, {id}) EXCEPT !.program = id]

bind_buffer(g, id) == [Named(g, {id}) EXCEPT !.array_buffer = id]

bind_vertex_array(g, id) == [Named(g, {id}) EXCEPT !.vertex_array = id]

\* buffer_data_u8_slice(ARRAY_BUFFER, ..): the data goes to the bound buffer
buffer_data(g, n) ==
    IF g.array_buffer = 0 THEN g
    ELSE [Named(g, {g.array_buffer}) EXCEPT !.objs[g.array_buffer].size = n]

\* uniform_matrix_4_f32_slice: the value goes to the program in use
uniform_matrix(g, name, data) ==
    IF g.program = 0 THEN g
    ELSE [Named(g, {g.program}) EXCEPT !.objs[g.program].uniforms[name] = data]

\* vertex_attrib_pointer_f32 + enable_vertex_attrib_array: the bound
\* vertex array records the bound buffer as the attribute's source
vertex_attrib(g) ==
    IF g.vertex_array = 0 THEN g
    ELSE [Named(g, {g.vertex_array, g.array_buffer})
            EXCEPT !.objs[g.vertex_array].attrib = g.array_buffer]

\* draw_arrays: drawn with whatever is bound at the time
draw_arrays(g, mode, count) ==
    [Named(g, {g.program, g.array_buffer, g.vertex_array}) EXCEPT
        !.lastDraw = [mode |-> mode, count |-> count, program |-> g.program,
                      array_buffer |-> g.array_buffer,
                      vertex_array |-> g.vertex_array]]

\* --------------------------------------------------------------- gl_wrap.rs

\* the error of a Result: the variant of the error enum and its payload
NoError == [variant |-> "none", log |-> <<>>]
Error(variant, log) == [variant |-> variant, log |-> log]

\* Shader::new answering a failed compile with an empty log
Shader_new_without_log(g, created, compiled) ==
    IF ~created
    THEN [gl |-> g, ok |-> FALSE, id |-> 0, err |-> Error("String", <<>>)]
    ELSE Let(create_object(g, "shader"), LAMBDA g1 :
         Let(NewestId(g1), LAMBDA id :
         Let(set_status(g1, id, compiled), LAMBDA g2 :
             IF compiled
             THEN [gl |-> g2, ok |-> TRUE, id |-> id, err |-> NoError]
             ELSE [gl |-> g2, ok |-> FALSE, id |-> 0,
                   err |-> Error("Compilation", <<>>)])))

\* `created`: create_shader returns Ok; `compiled`: the compile status
Shader_new(g, created, compiled) ==
    IF ~created
    THEN [gl |-> g, ok |-> FALSE, id |-> 0, err |-> Error("String", <<>>)]
    ELSE Let(create_object(g, "shader"), LAMBDA g1 :
         Let(NewestId(g1), LAMBDA id :
         Let(set_status(g1, id, compiled), LAMBDA g2 :
             IF compiled
             THEN [gl |-> g2, ok |-> TRUE, id |-> id, err |-> NoError]
             ELSE [gl |-> g2, ok |-> FALSE, id |-> 0,
                   err |-> Error("Compilation", info_log(g2, id))])))

Shader_drop(g, id) == delete_object(g, id)

\* String::from_utf8 on the bytes of an info log: over LogBytes, the bytes
\* below 128 are the ones that decode
from_utf8(bytes) ==
    IF \A i \in 1..Len(bytes) : bytes[i] < 128
    THEN [ok |-> TRUE, string |-> bytes]
    ELSE [ok |-> FALSE, string |-> <<>>]

\* Shader::new of main.rs, which reads the source from a file: `readable`
\* is whether fs::read_to_string returns Ok, `nul` whether the text holds a
\* NUL byte; glCreateShader hands back a handle without a Result
Shader_new_from_file(g, readable, nul, compiled) ==
    IF ~readable
    THEN [gl |-> g, ok |-> FALSE, id |-> 0, err |-> Error("Io", <<>>)]
    ELSE IF nul
    THEN [gl |-> g, ok |-> FALSE, id |-> 0, err |-> Error("Nul", <<>>)]
    ELSE Let(create_object(g, "shader"), LAMBDA g1 :
         Let(NewestId(g1), LAMBDA id :
         Let(set_status(g1, id, compiled), LAMBDA g2 :
             IF compiled
             THEN [gl |-> g2, ok |-> TRUE, id |-> id, err |-> NoError]
             ELSE Let(from_utf8(info_log(g2, id)), LAMBDA log :
                  IF ~log.ok
                  THEN [gl |-> g2, ok |-> FALSE, id |-> 0, err |-> Error("Utf8", <<>>)]
                  ELSE [gl |-> g2, ok |-> FALSE, id |-> 0,
                        err |-> Error("Compilation", log.string)]))))

\* Program::new returning Ok whatever the link status
Program_new_ignoring_status(g, vertex_shader, fragment_shader, created, linked) ==
    IF ~created
    THEN [gl |-> g, ok |-> FALSE, id |-> 0, err |-> Error("String", <<>>)]
    ELSE Let(create_object(g, "program"), LAMBDA g1 :
         Let(NewestId(g1), LAMBDA id :
         Let(set_status(Named(g1, {vertex_shader, fragment_shader}), id, linked),
             LAMBDA g2 :
             [gl |-> g2, ok |-> TRUE, id |-> id, err |-> NoError])))

\* `created`: create_program returns Ok; `linked`: the link status
Program_new(g, vertex_shader, fragment_shader, created, linked) ==
    IF ~created
    THEN [gl |-> g, ok |-> FALSE, id |-> 0, err |-> Error("String", <<>>)]
    ELSE Let(create_object(g, "program"), LAMBDA g1 :
         Let(NewestId(g1), LAMBDA id :
         Let(set_status(Named(g1, {vertex_shader, fragment_shader}), id, linked),
             LAMBDA g2 :
             IF linked
             THEN [gl |-> g2, ok |-> TRUE, id |-> id, err |-> NoError]
             ELSE [gl |-> g2, ok |-> FALSE, id |-> 0,
                   err |-> Error("Linking", info_log(g2, id))])))

\* what the backend can answer during Program::new_from_sources: all calls
\* succeed, or the named call is the first to fail
ProgramPlans ==
    {"ok", "vs_create", "vs_compile", "fs_create", "fs_compile", "program_create", "link"}

\* Program::new_from_sources returning on a link error before the stages
\* are dropped
Program_new_from_sources_early_return(g, plan) ==
    Let(Shader_new(g, plan # "vs_create", plan # "vs_compile"), LAMBDA vs :
    IF ~vs.ok
    THEN [gl |-> vs.gl, ok |-> FALSE, id |-> 0,
          vertex_shader |-> 0, fragment_shader |-> 0]
    ELSE
    Let(Shader_new(vs.gl, plan # "fs_create", plan # "fs_compile"), LAMBDA fs :
    IF ~fs.ok
    THEN [gl |-> fs.gl, ok |-> FALSE, id |-> 0,
          vertex_shader |-> vs.id, fragment_shader |-> 0]
    ELSE
    Let(Program_new(fs.gl, vs.id, fs.id, plan # "program_create", plan # "link"),
        LAMBDA result :
    IF ~result.ok
    THEN [gl |-> result.gl, ok |-> FALSE, id |-> 0,
          vertex_shader |-> vs.id, fragment_shader |-> fs.id]
    ELSE [gl |-> Shader_drop(Shader_drop(result.gl, vs.id), fs.id),
          ok |-> TRUE, id |-> result.id,
          vertex_shader |-> vs.id, fragment_shader |-> fs.id])))

\* the result carries the two locals as they are when the function
\* returns (0: never bound)
Program_new_from_sources(g, plan) ==
    Let(Shader_new(g, plan # "vs_create", plan # "vs_compile"), LAMBDA vs :
    IF ~vs.ok
    THEN [gl |-> vs.gl, ok |-> FALSE, id |-> 0,
          vertex_shader |-> 0, fragment_shader |-> 0]
    ELSE
    Let(Shader_new(vs.gl, plan # "fs_create", plan # "fs_compile"), LAMBDA fs :
    IF ~fs.ok
    THEN [gl |-> fs.gl, ok |-> FALSE, id |-> 0,
          vertex_shader |-> vs.id, fragment_shader |-> 0]
    ELSE
    Let(Program_new(fs.gl, vs.id, fs.id, plan # "program_create", plan # "link"),
        LAMBDA result :
    Let(Shader_drop(result.gl, vs.id), LAMBDA g1 :
    Let(Shader_drop(g1, fs.id), LAMBDA g2 :
        [gl |-> g2, ok |-> result.ok, id |-> result.id,
         vertex_shader |-> vs.id, fragment_shader |-> fs.id])))))

Program_drop(g, id) == delete_object(g, id)

Program_bind(g, id) == use_program(g, id)

Buffer_new(g, draw_type, created) ==
    IF ~created
    THEN [gl |-> g, ok |-> FALSE, buffer |-> [id |-> 0, draw_type |-> draw_type, len |-> 0]]
    ELSE Let(create_object(g, "buffer"), LAMBDA g1 :
             [gl |-> g1, ok |-> TRUE,
              buffer |-> [id |-> NewestId(g1), draw_type |-> draw_type, len |-> 0]])

Buffer_bind(g, buffer) == bind_buffer(g, buffer.id)

\* Buffer::set_data uploading without recording the length
Buffer_set_data_keeps_len(g, buffer, n) ==
    [gl |-> buffer_data(Buffer_bind(g, buffer), n), buffer |-> buffer]

\* Buffer::set_data uploading to whatever buffer is bound
Buffer_set_data_without_bind(g, buffer, n) ==
    [gl |-> buffer_data(g, n), buffer |-> [buffer EXCEPT !.len = n]]

\* `n` is data.len()
Buffer_set_data(g, buffer, n) ==
    [gl |-> buffer_data(Buffer_bind(g, buffer), n),
     buffer |-> [buffer EXCEPT !.len = n]]

Buffer_drop(g, buffer) == delete_object(g, buffer.id)

VertexArray_new(g, created) ==
    IF ~created
    THEN [gl |-> g, ok |-> FALSE, id |-> 0]
    ELSE Let(create_object(g, "vertex_array"), LAMBDA g1 :
             [gl |-> g1, ok |-> TRUE, id |-> NewestId(g1)])

\* VertexArray::set_attrib configuring the attribute before it looks at
\* the location
VertexArray_set_attrib_before_lookup(g, program, found) ==
    IF ~found
    THEN [gl |-> vertex_attrib(Named(g, {program})), ok |-> FALSE,
          err |-> Error("Location", <<>>)]
    ELSE [gl |-> vertex_attrib(Named(g, {program})), ok |-> TRUE, err |-> NoError]

\* `found`: whether get_attrib_location finds the name in the program
VertexArray_set_attrib(g, program, found) ==
    IF ~found
    THEN [gl |-> Named(g, {program}), ok |-> FALSE, err |-> Error("Location", <<>>)]
    ELSE [gl |-> vertex_attrib(Named(g, {program})), ok |-> TRUE, err |-> NoError]

VertexArray_bind(g, id) == bind_vertex_array(g, id)

VertexArray_drop(g, id) == delete_object(g, id)

\* UniformMatrix::new(name, data)
UniformMatrix_new(name, data) == [name |-> name, data |-> data]

\* UniformMatrix::apply(gl, programs): push the value to every program of
\* the list, in order; `miss` is the position in the list of the program in
\* which the backend does not find the uniform (0: found in all)
RECURSIVE ApplyFrom(_, _, _, _, _)
ApplyFrom(g, um, programs, i, miss) ==
    IF i > Len(programs)
    THEN [gl |-> g, ok |-> TRUE]
    ELSE Let(Program_bind(g, programs[i]), LAMBDA g1 :
             IF miss = i
             THEN [gl |-> [g1 EXCEPT !.failures = @ + 1], ok |-> FALSE]
             ELSE ApplyFrom(uniform_matrix(g1, um.name, um.data), um, programs,
                            i + 1, miss))

UniformMatrix_apply(g, um, programs, miss) == ApplyFrom(g, um, programs, 1, miss)

\* -------------------------------------------------------------------- f32

\* an f32 is a sign s, a significand m and an exponent e, its value
\* (-1)^s * m * 2^e with 2^23 <= m < 2^24; zero is m = 0 (the sign of a
\* zero is not kept: -0.0 == 0.0 in every comparison the code makes).
\* The exponents stay far from the ends of the format's range, where
\* results become subnormal or infinite.
F32(s, m, e) == [s |-> s, m |-> m, e |-> e]

Zero32 == F32(0, 0, 0)

\* the literals 0.5 and 1.0
Half32 == F32(0, 2^23, -24)
One32 == F32(0, 2^23, -23)

\* a significand that reached 2^24 is 2^23 with the next exponent
Pack(s, m, e) ==
    IF m = 2^24 THEN F32(s, 2^23, e + 1) ELSE F32(s, m, e)

\* round to nearest, ties to even: m is kept, `rest` out of `unit` is cut
RoundNearestEven(s, m, rest, unit, e) ==
    IF 2 * rest > unit \/ (2 * rest = unit /\ m % 2 = 1)
    THEN Pack(s, m + 1, e)
    ELSE Pack(s, m, e)

\* hi * 2^24 + lo, from the partial products of 12-bit halves
Mul48Carry(hi, lo) == <<hi + lo \div 2^24, lo % 2^24>>

Mul48Sum(hh, mid, ll) ==
    Mul48Carry(hh + mid \div 2^12, (mid % 2^12) * 2^12 + ll)

\* the exact product of two significands, as <<hi, lo>> = hi * 2^24 + lo
Mul48(a, b) ==
    Mul48Sum((a \div 2^12) * (b \div 2^12),
             (a \div 2^12) * (b % 2^12) + (a % 2^12) * (b \div 2^12),
             (a % 2^12) * (b % 2^12))

Le48(p, q) == p[1] < q[1] \/ (p[1] = q[1] /\ p[2] <= q[2])

MulRound(s, p, e) ==
    IF p[1] >= 2^23
    THEN RoundNearestEven(s, p[1], p[2], 2^24, e + 24)
    ELSE RoundNearestEven(s, 2 * p[1] + p[2] \div 2^23, p[2] % 2^23, 2^23, e + 23)

\* x * y
f32_mul(x, y) ==
    IF x.m = 0 \/ y.m = 0
    THEN Zero32
    ELSE MulRound((x.s + y.s) % 2, Mul48(x.m, y.m), x.e + y.e)

\* n / d, the bits cut ored into the last bit kept
Sticky(n, d) ==
    IF n % d = 0 THEN n \div d ELSE ((n \div d) \div 2) * 2 + 1

\* n * 2^e (n below 2^28) brought to 27 bits and rounded to 24
RECURSIVE Normalize(_, _, _)
Normalize(s, n, e) ==
    IF n = 0 THEN Zero32
    ELSE IF n >= 2^27 THEN Normalize(s, Sticky(n, 2), e + 1)
    ELSE IF n < 2^26 THEN Normalize(s, 2 * n, e - 1)
    ELSE RoundNearestEven(s, n \div 8, n % 8, 8, e + 3)

\* |x| >= |y|, both not zero
Larger(x, y) == x.e > y.e \/ (x.e = y.e /\ x.m >= y.m)

\* x + y for |x| >= |y|: y aligned to x with three more bits; a y more
\* than 25 binary places below x is below a quarter of x's last place
AddOrdered(x, y) ==
    IF x.e - y.e > 25
    THEN x
    ELSE Normalize(x.s,
                   IF x.s = y.s
                   THEN x.m * 8 + Sticky(y.m * 8, 2^(x.e - y.e))
                   ELSE x.m * 8 - Sticky(y.m * 8, 2^(x.e - y.e)),
                   x.e - 3)

\* x + y
f32_add(x, y) ==
    IF x.m = 0 THEN y
    ELSE IF y.m = 0 THEN x
    ELSE IF Larger(x, y) THEN AddOrdered(x, y)
    ELSE AddOrdered(y, x)

f32_neg(x) == IF x.m = 0 THEN x ELSE F32(1 - x.s, x.m, x.e)

\* x - y
f32_sub(x, y) == f32_add(x, f32_neg(y))

\* x.abs()
f32_abs(x) == F32(0, x.m, x.e)

\* x < y
f32_lt(x, y) ==
    IF x.m = 0 THEN y.m # 0 /\ y.s = 0
    ELSE IF y.m = 0 THEN x.s = 1
    ELSE IF x.s # y.s THEN x.s = 1
    ELSE IF x.s = 0 THEN ~Larger(x, y)
    ELSE ~Larger(y, x)

\* the floor of the square root of n = <<hi, lo>>, one bit at a time
RECURSIVE SqrtBits(_, _, _)
SqrtBits(n, r, bit) ==
    IF bit < 0 THEN r
    ELSE IF Le48(Mul48(r + 2^bit, r + 2^bit), n)
    THEN SqrtBits(n, r + 2^bit, bit - 1)
    ELSE SqrtBits(n, r, bit - 1)

\* the root r of n is rounded up when n > (r + 1/2)^2, that is n > r * (r + 1)
SqrtRound(n, r, e) ==
    IF Le48(n, Mul48(r, r + 1)) THEN Pack(0, r, e) ELSE Pack(0, r + 1, e)

SqrtOf(n, e) == SqrtRound(n, SqrtBits(n, 0, 23), e)

\* x.sqrt() for x >= 0: the significand is scaled by 2^24 or 2^23, so that
\* the exponent left is even
f32_sqrt(x) ==
    IF x.m = 0 THEN Zero32
    ELSE IF x.e % 2 = 0
    THEN SqrtOf(<<x.m, 0>>, (x.e - 24) \div 2)
    ELSE SqrtOf(<<x.m \div 2, (x.m % 2) * 2^23>>, (x.e - 23) \div 2)

\* k more bits of the quotient q, with the remainder: <<q, rem>>
RECURSIVE DivBits(_, _, _, _)
DivBits(rem, d, q, k) ==
    IF k = 0 THEN <<q, rem>>
    ELSE IF 2 * rem >= d THEN DivBits(2 * rem - d, d, 2 * q + 1, k - 1)
    ELSE DivBits(2 * rem, d, 2 * q, k - 1)

DivRound(s, qr, d, e) == RoundNearestEven(s, qr[1], qr[2], d, e)

\* x / y for y not zero
f32_div(x, y) ==
    IF x.m = 0 THEN Zero32
    ELSE IF x.m >= y.m
    THEN DivRound((x.s + y.s) % 2, DivBits(x.m - y.m, y.m, 1, 23), y.m,
                  x.e - y.e - 23)
    ELSE DivRound((x.s + y.s) % 2, DivBits(x.m, y.m, 0, 24), y.m,
                  x.e - y.e - 24)

\* -------------------------------------------------------------- icosphere.rs

\* number of triangles after `iterations` passes: the base mesh has 20
\* faces and subdivide_icosphere appends 4 triangles per input triangle
RECURSIVE triangle_count(_)
triangle_count(iterations) ==
    IF iterations = 0 THEN 20 ELSE 4 * triangle_count(iterations - 1)

\* get_icosphere(iterations).len(): 3 corners of 3 floats per triangle
icosphere_len(iterations) == 3 * 3 * triangle_count(iterations)

\* normalize handing back its argument
normalize_skipped(v) == v

\* normalize(v): v scaled by the inverse of its length
normalize(v) ==
    Let(f32_sqrt(f32_add(f32_add(f32_mul(v[1], v[1]), f32_mul(v[2], v[2])),
                         f32_mul(v[3], v[3]))), LAMBDA len :
    Let(IF len = Zero32 THEN Zero32 ELSE f32_div(One32, len), LAMBDA inv_len :
        <<f32_mul(v[1], inv_len), f32_mul(v[2], inv_len), f32_mul(v[3], inv_len)>>))

midpoint(a, b) ==
    <<f32_mul(f32_add(a[1], b[1]), Half32),
      f32_mul(f32_add(a[2], b[2]), Half32),
      f32_mul(f32_add(a[3], b[3]), Half32)>>

\* vert[i] of a Vec, whose indices start at 0
At(vec, i) == vec[i + 1]

\* the midpoints alone: the corners taken as already there
SubdividedVertices_midpoints_only(vert, t) ==
    <<normalize(midpoint(At(vert, t[1]), At(vert, t[2]))),
      normalize(midpoint(At(vert, t[2]), At(vert, t[3]))),
      normalize(midpoint(At(vert, t[3]), At(vert, t[1])))>>

\* the 6 vertices one triangle appends to next_vert
SubdividedVertices(vert, t) ==
    <<At(vert, t[1]), At(vert, t[2]), At(vert, t[3]),
      normalize(midpoint(At(vert, t[1]), At(vert, t[2]))),
      normalize(midpoint(At(vert, t[2]), At(vert, t[3]))),
      normalize(midpoint(At(vert, t[3]), At(vert, t[1])))>>

\* the first corner triangle with its last two indices exchanged
SubdividedTriangles_first_flipped(curr_ind) ==
    << <<curr_ind, 5 + curr_ind, 3 + curr_ind>>,
       <<3 + curr_ind, 1 + curr_ind, 4 + curr_ind>>,
       <<4 + curr_ind, 2 + curr_ind, 5 + curr_ind>>,
       <<3 + curr_ind, 4 + curr_ind, 5 + curr_ind>> >>

\* the centre triangle appended first
SubdividedTriangles_centre_first(curr_ind) ==
    << <<3 + curr_ind, 4 + curr_ind, 5 + curr_ind>>,
       <<curr_ind, 3 + curr_ind, 5 + curr_ind>>,
       <<3 + curr_ind, 1 + curr_ind, 4 + curr_ind>>,
       <<4 + curr_ind, 2 + curr_ind, 5 + curr_ind>> >>

\* the corner triangles without the centre one
SubdividedTriangles_without_centre(curr_ind) ==
    << <<curr_ind, 3 + curr_ind, 5 + curr_ind>>,
       <<3 + curr_ind, 1 + curr_ind, 4 + curr_ind>>,
       <<4 + curr_ind, 2 + curr_ind, 5 + curr_ind>> >>

\* the 4 triangles one triangle appends to next_tri
SubdividedTriangles(curr_ind) ==
    << <<curr_ind, 3 + curr_ind, 5 + curr_ind>>,
       <<3 + curr_ind, 1 + curr_ind, 4 + curr_ind>>,
       <<4 + curr_ind, 2 + curr_ind, 5 + curr_ind>>,
       <<3 + curr_ind, 4 + curr_ind, 5 + curr_ind>> >>

\* a pass that reads next_vert.len() after the vertices are appended
subdivide_pass_index_after_append(vert, t, next_vert, next_tri) ==
    [next_vert |-> next_vert \o SubdividedVertices(vert, t),
     next_tri |-> next_tri \o SubdividedTriangles(Len(next_vert) + 6)]

\* one pass of `for t in tri` in subdivide_icosphere: the vertices and
\* triangles of t are appended, curr_ind being next_vert.len()
subdivide_pass(vert, t, next_vert, next_tri) ==
    [next_vert |-> next_vert \o SubdividedVertices(vert, t),
     next_tri |-> next_tri \o SubdividedTriangles(Len(next_vert))]

\* the constants A and B of get_icosphere, and their negations
A32 == F32(0, 8820304, -24)
B32 == F32(0, 14271552, -24)
NegA32 == f32_neg(A32)
NegB32 == f32_neg(B32)

\* the starting geometry of get_icosphere
BaseVertices ==
    << <<NegA32, B32, Zero32>>, <<A32, B32, Zero32>>,
       <<NegA32, NegB32, Zero32>>, <<A32, NegB32, Zero32>>,
       <<Zero32, NegA32, B32>>, <<Zero32, A32, B32>>,
       <<Zero32, NegA32, NegB32>>, <<Zero32, A32, NegB32>>,
       <<B32, Zero32, NegA32>>, <<B32, Zero32, A32>>,
       <<NegB32, Zero32, NegA32>>, <<NegB32, Zero32, A32>> >>

BaseTriangles ==
    << <<0, 11, 5>>, <<0, 5, 1>>, <<0, 1, 7>>, <<0, 7, 10>>, <<0, 10, 11>>,
       <<1, 5, 9>>, <<5, 11, 4>>, <<11, 10, 2>>, <<10, 7, 6>>, <<7, 1, 8>>,
       <<3, 9, 4>>, <<3, 4, 2>>, <<3, 2, 6>>, <<3, 6, 8>>, <<3, 8, 9>>,
       <<4, 9, 5>>, <<2, 4, 11>>, <<6, 2, 10>>, <<8, 6, 7>>, <<9, 8, 1>> >>

\* `for ind in tri`, from the j-th index on: the 3 floats of each vertex
RECURSIVE PushTriangle(_, _, _, _)
PushTriangle(vertices, tri, j, buffer) ==
    IF j > Len(tri)
    THEN buffer
    ELSE PushTriangle(vertices, tri, j + 1, buffer \o At(vertices, tri[j]))

\* a pass that pushes the corners of the triangle last to first
buffer_pass_corners_reversed(vertices, tri, buffer) ==
    PushTriangle(vertices, <<tri[3], tri[2], tri[1]>>, 1, buffer)

\* one pass of `for tri in triangles` in get_icosphere
buffer_pass(vertices, tri, buffer) == PushTriangle(vertices, tri, 1, buffer)

\* ------------------------------------------------------ globe.rs, points.rs

\* the iteration count Globe::new asks for
GLOBE_ITERATIONS == 4

\* what the backend can answer during Globe::new / Points::new
ScenePlans == {"buffer", "vertex_array"} \cup ProgramPlans

ProgramPlanOf(plan) == IF plan \in ProgramPlans THEN plan ELSE "ok"

NoBuffer == [id |-> 0, draw_type |-> "none", len |-> 0]

NoScene == [program |-> 0, buffer |-> NoBuffer, vao |-> 0]

\* a log entry for a Program::new_from_sources call that started in context
\* `g` and returned `r`: the result, the two locals, and the range of the
\* handles the backend created during the call
CallLog(g, r) ==
    [ok |-> r.ok, id |-> r.id, vertex_shader |-> r.vertex_shader,
     fragment_shader |-> r.fragment_shader,
     first |-> Len(g.objs) + 1, last |-> Len(r.gl.objs)]

\* the result carries the new_from_sources calls made, for the log
Globe_new(g, plan) ==
    Let(icosphere_len(GLOBE_ITERATIONS), LAMBDA data :
    Let(Buffer_new(g, "STATIC_DRAW", plan # "buffer"), LAMBDA b :
    IF ~b.ok
    THEN [gl |-> b.gl, ok |-> FALSE, scene |-> NoScene, calls |-> <<>>]
    ELSE
    Let(Buffer_set_data(b.gl, b.buffer, data), LAMBDA d :
    Let(Program_new_from_sources(d.gl, ProgramPlanOf(plan)), LAMBDA program :
    Let(<<CallLog(d.gl, program)>>, LAMBDA log :
    IF ~program.ok
    THEN [gl |-> program.gl, ok |-> FALSE, scene |-> NoScene, calls |-> log]
    ELSE
    Let(VertexArray_new(program.gl, plan # "vertex_array"), LAMBDA vao :
    IF ~vao.ok
    THEN [gl |-> vao.gl, ok |-> FALSE, scene |-> NoScene, calls |-> log]
    ELSE [gl |-> vao.gl, ok |-> TRUE,
          scene |-> [program |-> program.id, buffer |-> d.buffer, vao |-> vao.id],
          calls |-> log]))))))

Points_new(g, plan) ==
    Let(Buffer_new(g, "DYNAMIC_DRAW", plan # "buffer"), LAMBDA b :
    IF ~b.ok
    THEN [gl |-> b.gl, ok |-> FALSE, scene |-> NoScene, calls |-> <<>>]
    ELSE
    Let(Program_new_from_sources(b.gl, ProgramPlanOf(plan)), LAMBDA program :
    Let(<<CallLog(b.gl, program)>>, LAMBDA log :
    IF ~program.ok
    THEN [gl |-> program.gl, ok |-> FALSE, scene |-> NoScene, calls |-> log]
    ELSE
    Let(VertexArray_new(program.gl, plan # "vertex_array"), LAMBDA vao :
    IF ~vao.ok
    THEN [gl |-> vao.gl, ok |-> FALSE, scene |-> NoScene, calls |-> log]
    ELSE [gl |-> vao.gl, ok |-> TRUE,
          scene |-> [program |-> program.id, buffer |-> b.buffer, vao |-> vao.id],
          calls |-> log]))))

\* the closure Globe::get_draw returns
Globe_draw(g, globe) == draw_arrays(g, "TRIANGLES", globe.buffer.len \div 3)

\* `found`: whether the program has the "position" attribute
Globe_setup_gl_resources(g, globe, found) ==
    Let(Program_bind(g, globe.program), LAMBDA g1 :
    Let(Buffer_bind(g1, globe.buffer), LAMBDA g2 :
    Let(VertexArray_bind(g2, globe.vao), LAMBDA g3 :
        VertexArray_set_attrib(g3, globe.program, found))))

Points_setup_gl_resources(g, points, found) ==
    Let(Program_bind(g, points.program), LAMBDA g1 :
    Let(Buffer_bind(g1, points.buffer), LAMBDA g2 :
    Let(VertexArray_bind(g2, points.vao), LAMBDA g3 :
        VertexArray_set_attrib(g3, points.program, found))))

\* Option<Vec<f32>>, a vector standing for its length
None == [some |-> FALSE, len |-> 0]
Some(n) == [some |-> TRUE, len |-> n]

\* Points::draw issuing the draw call before the upload
Points_draw_before_upload(g, points, data) ==
    Let(Program_bind(g, points.program), LAMBDA g1 :
    Let(Buffer_bind(g1, points.buffer), LAMBDA g2 :
    Let(VertexArray_bind(g2, points.vao), LAMBDA g3 :
    Let(draw_arrays(g3, "POINTS", points.buffer.len \div 3), LAMBDA g4 :
    Let(IF data.some
        THEN Buffer_set_data(g4, points.buffer, data.len)
        ELSE [gl |-> g4, buffer |-> points.buffer], LAMBDA d :
        [gl |-> d.gl, points |-> [points EXCEPT !.buffer = d.buffer]])))))

Points_draw(g, points, data) ==
    Let(Program_bind(g, points.program), LAMBDA g1 :
    Let(Buffer_bind(g1, points.buffer), LAMBDA g2 :
    Let(VertexArray_bind(g2, points.vao), LAMBDA g3 :
    Let(IF data.some
        THEN Buffer_set_data(g3, points.buffer, data.len)
        ELSE [gl |-> g3, buffer |-> points.buffer], LAMBDA d :
        [gl |-> draw_arrays(d.gl, "POINTS", d.buffer.len \div 3),
         points |-> [points EXCEPT !.buffer = d.buffer]]))))

Globe_drop(g, globe) ==
    Buffer_drop(Program_drop(g, globe.program), globe.buffer)

Points_drop(g, points) ==
    Buffer_drop(Program_drop(g, points.program), points.buffer)

\* ---------------------------------------------------------------- vis_gl.rs

\* Mat4::perspective_rh_gl(1.25, aspect, 0.1, 10.0) for the default square
\* window, in thousandths (never multiplied on the host, only pushed)
perspective_rh_gl ==
    << <<1386, 0, 0, 0>>, <<0, 1386, 0, 0>>, <<0, 0, -1020, -202>>, <<0, 0, -1000, 0>> >>

\* Mat4::look_at_rh((0, 0, 2), Vec3::ZERO, Vec3::Y): the axes stay, the
\* scene moves two units down the z axis
look_at_rh ==
    << <<1, 0, 0, 0>>, <<0, 1, 0, 0>>, <<0, 0, 1, -2>>, <<0, 0, 0, 1>> >>

MvpMatrices_new_default ==
    [proj |-> UniformMatrix_new("projMatrix", perspective_rh_gl),
     view |-> UniformMatrix_new("viewMatrix", look_at_rh),
     model |-> UniformMatrix_new("modelMatrix", IDENTITY)]

\* `miss`: which of the 3 * Len(programs) lookups the backend answers
\* with not found (0: none)
MvpMatrices_apply(g, mvp, programs, miss) ==
    LET n == Len(programs)
        part(k) == IF miss > (k - 1) * n /\ miss <= k * n THEN miss - (k - 1) * n ELSE 0
    IN  Let(UniformMatrix_apply(g, mvp.proj, programs, part(1)), LAMBDA p :
        IF ~p.ok THEN p
        ELSE
        Let(UniformMatrix_apply(p.gl, mvp.view, programs, part(2)), LAMBDA v :
        IF ~v.ok THEN v
        ELSE UniformMatrix_apply(v.gl, mvp.model, programs, part(3))))

\* the struct before VisGl::new has returned one
NoVis ==
    [globe |-> NoScene, points |-> NoScene, mvp |-> MvpMatrices_new_default,
     mouse |-> MouseState_new]

VisGl_new(g, globe_plan, points_plan) ==
    Let(MouseState_new, LAMBDA mouse :
    Let(Globe_new(g, globe_plan), LAMBDA globe :
    IF ~globe.ok
    THEN [gl |-> globe.gl, ok |-> FALSE, vis |-> NoVis, calls |-> globe.calls]
    ELSE
    Let(Points_new(globe.gl, points_plan), LAMBDA points :
    IF ~points.ok
    THEN [gl |-> points.gl, ok |-> FALSE, vis |-> NoVis,
          calls |-> globe.calls \o points.calls]
    ELSE [gl |-> points.gl, ok |-> TRUE,
          vis |-> [globe |-> globe.scene, points |-> points.scene,
                   mvp |-> MvpMatrices_new_default, mouse |-> mouse],
          calls |-> globe.calls \o points.calls])))

\* VisGl::programs listing the globe program only
VisGl_programs_globe_only(v) == <<v.globe.program>>

VisGl_programs(v) == <<v.points.program, v.globe.program>>

VisGl_mouse_move(v, g, x, y, miss) ==
    IF v.mouse.dragging
    THEN Let(x - v.mouse.x, LAMBDA dx :
         Let(y - v.mouse.y, LAMBDA dy :
         Let([v EXCEPT !.mvp.model.data = rotate_from_mouse(@, dx, dy)], LAMBDA v1 :
         Let(UniformMatrix_apply(g, v1.mvp.model, VisGl_programs(v1), miss), LAMBDA a :
             IF ~a.ok
             THEN [vis |-> v1, gl |-> a.gl, ok |-> FALSE]
             ELSE [vis |-> [v1 EXCEPT !.mouse.x = x, !.mouse.y = y],
                   gl |-> a.gl, ok |-> TRUE]))))
    ELSE [vis |-> [v EXCEPT !.mouse.x = x, !.mouse.y = y], gl |-> g, ok |-> TRUE]

\* VisGl::mouse_wheel zooming the model matrix instead of the view matrix
VisGl_mouse_wheel_on_model(v, g, delta, miss) ==
    Let([v EXCEPT !.mvp.model.data = zoom_from_scroll(@, delta)], LAMBDA v1 :
    Let(UniformMatrix_apply(g, v1.mvp.model, VisGl_programs(v1), miss), LAMBDA a :
        [vis |-> v1, gl |-> a.gl, ok |-> a.ok]))

VisGl_mouse_wheel(v, g, delta, miss) ==
    Let([v EXCEPT !.mvp.view.data = zoom_from_scroll(@, delta)], LAMBDA v1 :
    Let(UniformMatrix_apply(g, v1.mvp.view, VisGl_programs(v1), miss), LAMBDA a :
        [vis |-> v1, gl |-> a.gl, ok |-> a.ok]))

\* VisGl::mouse_input taking the flag from any button
VisGl_mouse_input_any_button(v, button, pressed) ==
    [v EXCEPT !.mouse.dragging = pressed]

VisGl_mouse_input(v, button, pressed) ==
    IF button = "Left" THEN [v EXCEPT !.mouse.dragging = pressed] ELSE v

\* clear_color and enable set no state the model holds; the unwrap turns
\* a failed push into a panic
VisGl_setup_gl(v, g, miss) ==
    Let(MvpMatrices_apply(g, v.mvp, VisGl_programs(v), miss), LAMBDA a :
        [gl |-> a.gl, ok |-> a.ok, panicked |-> ~a.ok])

\* the closure VisGl::get_draw returns: clear, then the globe's draw
VisGl_draw(v, g) == Globe_draw(g, v.globe)

\* VisGl::drop releasing the globe a second time instead of the points
VisGl_drop_globe_twice(g, v) == Globe_drop(Globe_drop(g, v.globe), v.globe)

VisGl_drop(g, v) == Points_drop(Globe_drop(g, v.globe), v.points)

\* ------------------------------------------------------------------- vis.rs

\* UniformMatrix::apply(gl) of gl_wrap.rs: the value goes to the location
\* the struct holds, in the program in use
UniformMatrix_apply_located(g, um) == uniform_matrix(g, um.name, um.data)

\* VisGl::setup_gl_resources of vis.rs: `created` is whether
\* create_vertex_array returns Ok (the unwrap turns Err into a panic),
\* `found` whether the program has the "position" attribute
Vis_setup_gl_resources(v, g, created, found) ==
    IF ~created
    THEN [gl |-> g, ok |-> FALSE, panicked |-> TRUE, err |-> NoError]
    ELSE Let(create_object(g, "vertex_array"), LAMBDA g1 :
         Let(bind_vertex_array(g1, NewestId(g1)), LAMBDA g2 :
         Let(Buffer_bind(Program_bind(g2, v.globe.program), v.globe.buffer),
             LAMBDA g3 :
         Let(VertexArray_set_attrib(g3, v.globe.program, found), LAMBDA a :
             IF ~a.ok
             THEN [gl |-> a.gl, ok |-> FALSE, panicked |-> FALSE, err |-> a.err]
             ELSE [gl |-> UniformMatrix_apply_located(
                              UniformMatrix_apply_located(
                                  UniformMatrix_apply_located(a.gl, v.mvp.proj),
                                  v.mvp.view),
                              v.mvp.model),
                   ok |-> TRUE, panicked |-> FALSE, err |-> NoError]))))

\* ------------------------------------------------- vis_build.rs, vis_ctx.rs

Targets == {"native", "wasm32"}

NoMove == [seen |-> FALSE, x |-> 0, y |-> 0]

Init ==
    /\ target \in Targets
    /\ phase = "start"
    /\ gl = NewContext
    /\ vis = NoVis
    /\ built = <<>>
    /\ lastLeft = FALSE
    /\ lastMove = NoMove

\* VisContext::new of vis_ctx.rs: Ok with the context; Err from `?`
\* (build_windowed on the native target, get_context("webgl2") on the
\* web); or a panic from an unwrap (make_current on the native target,
\* the window, document, body and append_child on the web)
ContextOutcomes == {"Ok", "Err", "Panic"}

\* VisBuilder::start up to the call of VisContext::run: VisContext::new,
\* which hands out the context, returns an error or unwinds, then
\* VisGl::new
Start(context, globe_plan, points_plan) ==
    /\ phase = "start"
    /\ IF context = "Panic"
       THEN /\ phase' = "start_panicked"
            /\ UNCHANGED <<gl, vis, built>>
       ELSE IF context = "Err"
       THEN /\ phase' = "failed"
            /\ UNCHANGED <<gl, vis, built>>
       ELSE \E r \in {VisGl_new(gl, globe_plan, points_plan)} :
                /\ phase' = IF r.ok THEN "constructed" ELSE "failed"
                /\ gl' = r.gl
                /\ vis' = r.vis
                /\ built' = r.calls
    /\ UNCHANGED <<target, lastLeft, lastMove>>

\* VisContext::run before the loop is entered: the attribute layout of
\* both scenes (in either order), then VisGl::setup_gl
RunSetup(first, globe_found, points_found, miss) ==
    /\ phase = "constructed"
    /\ \E a \in {IF first = "globe"
                 THEN Globe_setup_gl_resources(gl, vis.globe, globe_found)
                 ELSE Points_setup_gl_resources(gl, vis.points, points_found)} :
       \E b \in {IF first = "globe"
                 THEN Points_setup_gl_resources(a.gl, vis.points, points_found)
                 ELSE Globe_setup_gl_resources(a.gl, vis.globe, globe_found)} :
       \E c \in {VisGl_setup_gl(vis, b.gl, miss)} :
           IF ~a.ok
           THEN phase' = "setup_failed" /\ gl' = a.gl
           ELSE IF ~b.ok
           THEN phase' = "setup_failed" /\ gl' = b.gl
           ELSE IF c.panicked
           THEN phase' = "panicked" /\ gl' = c.gl
           ELSE phase' = "running" /\ gl' = c.gl
    /\ UNCHANGED <<target, vis, built, lastLeft, lastMove>>

\* the backend may answer a uniform lookup with not found, at most
\* MaxLookupFailures times while the loop runs
MayMiss(miss, n) ==
    /\ miss \in 0..n
    /\ miss # 0 => gl.failures < MaxLookupFailures

\* WindowEvent::CursorMoved { position }
CursorMoved(x, y, miss) ==
    /\ phase = "running"
    /\ MayMiss(miss, IF vis.mouse.dragging THEN Len(VisGl_programs(vis)) ELSE 0)
    /\ \E r \in {VisGl_mouse_move(vis, gl, x, y, miss)} :
           vis' = r.vis /\ gl' = r.gl
    /\ lastMove' = [seen |-> TRUE, x |-> x, y |-> y]
    /\ UNCHANGED <<target, phase, built, lastLeft>>

ScrollEncodings == {"PixelDelta", "LineDelta"}

\* the match on MouseScrollDelta: the y of either encoding, as f64
scroll_delta(encoding, value) ==
    CASE encoding = "PixelDelta" -> value
      [] encoding = "LineDelta" -> value

\* the 3x3 part of a matrix stays within -MaxZoom..MaxZoom
WithinZoom(m) ==
    \A i, j \in 1..3 : m[i][j] <= MaxZoom /\ -m[i][j] <= MaxZoom

\* WindowEvent::MouseWheel { delta }
MouseWheel(encoding, value, miss) ==
    /\ phase = "running"
    /\ MayMiss(miss, Len(VisGl_programs(vis)))
    /\ \E ds \in {scroll_delta(encoding, value)} :
       \E r \in {VisGl_mouse_wheel(vis, gl, ds, miss)} :
           /\ WithinZoom(r.vis.mvp.view.data)
           /\ vis' = r.vis
           /\ gl' = r.gl
    /\ UNCHANGED <<target, phase, built, lastLeft, lastMove>>

WindowButtons == {"Left", "Right", "Middle"}

\* the match on the window system's button
map_button(button) ==
    CASE button = "Left" -> "Left"
      [] button = "Right" -> "Right"
      [] OTHER -> "Other"

\* the match on ElementState
map_state(state) == state = "Pressed"

\* WindowEvent::MouseInput { button, state }
MouseInput(button, state) ==
    /\ phase = "running"
    /\ vis' = VisGl_mouse_input(vis, map_button(button), map_state(state))
    /\ lastLeft' = IF button = "Left" THEN state = "Pressed" ELSE lastLeft
    /\ UNCHANGED <<target, phase, gl, built, lastMove>>

\* Event::RedrawRequested
RedrawRequested ==
    /\ phase = "running"
    /\ gl' = VisGl_draw(vis, gl)
    /\ UNCHANGED <<target, phase, vis, built, lastLeft, lastMove>>

\* a call of Points::draw by the code that owns the point cloud
PointsDraw(data) ==
    /\ phase = "running"
    /\ \E r \in {Points_draw(gl, vis.points, data)} :
           /\ gl' = r.gl
           /\ vis' = [vis EXCEPT !.points = r.points]
    /\ UNCHANGED <<target, phase, built, lastLeft, lastMove>>

\* WindowEvent::CloseRequested: control_flow becomes Exit, which is sticky;
\* the loop then delivers LoopDestroyed as its last event
CloseRequested ==
    /\ phase = "running"
    /\ phase' = "exiting"
    /\ UNCHANGED <<target, gl, vis, built, lastLeft, lastMove>>

\* Event::LoopDestroyed: handled by the native loop, ignored by the web loop
LoopDestroyed ==
    /\ phase = "exiting"
    /\ phase' = "destroyed"
    /\ gl' = IF target = "native" THEN VisGl_drop(gl, vis) ELSE gl
    /\ UNCHANGED <<target, vis, built, lastLeft, lastMove>>

\* the loop with a backend that finds every uniform it is asked for
Next ==
    \/ \E c \in ContextOutcomes, gp \in ScenePlans, pp \in ScenePlans :
          Start(c, gp, pp)
    \/ \E f \in {"globe", "points"}, gf \in BOOLEAN, pf \in BOOLEAN, m \in 0..6 :
          RunSetup(f, gf, pf, m)
    \/ \E x \in Coords, y \in Coords : CursorMoved(x, y, 0)
    \/ \E e \in ScrollEncodings, v \in ScrollValues : MouseWheel(e, v, 0)
    \/ \E b \in WindowButtons, s \in {"Pressed", "Released"} : MouseInput(b, s)
    \/ RedrawRequested
    \/ \E n \in PointData : PointsDraw(Some(n))
    \/ PointsDraw(None)
    \/ CloseRequested
    \/ LoopDestroyed

Spec == Init /\ [][Next]_vars

\* the input handlers with a backend that may answer a uniform lookup
\* with not found; Points::draw stays in, as it changes the program in use
NextFaulty ==
    \/ \E c \in ContextOutcomes, gp \in ScenePlans, pp \in ScenePlans :
          Start(c, gp, pp)
    \/ \E f \in {"globe", "points"}, gf \in BOOLEAN, pf \in BOOLEAN, m \in 0..6 :
          RunSetup(f, gf, pf, m)
    \/ \E x \in Coords, y \in Coords, m \in 0..2 : CursorMoved(x, y, m)
    \/ \E e \in ScrollEncodings, v \in ScrollValues, m \in 0..2 : MouseWheel(e, v, m)
    \/ \E b \in WindowButtons, s \in {"Pressed", "Released"} : MouseInput(b, s)
    \/ PointsDraw(None)

SpecFaulty == Init /\ [][NextFaulty]_vars

\* the transpose used by inverse is an inverse of the model matrix
ModelIsRotation ==
    mul_mat4(vis.mvp.model.data, inverse(vis.mvp.model.data)) = IDENTITY

\* ------------------------------------------------- single calls of a wrapper

\* the functions called alone, and what the caller and the backend put in:
\* `created`, `success` (the compile or link status), `found` are the
\* backend's answers, `log` is the info log it holds; `readable` and `nul`
\* describe the source file; `bound` is whether the scene's buffer and
\* vertex array are bound when set_attrib is called; `miss` is the uniform
\* lookup of setup_gl the backend answers with not found (0: none)
CallInput(op, created, success, log, readable, nul, found, bound, miss) ==
    [op |-> op, created |-> created, success |-> success, log |-> log,
     readable |-> readable, nul |-> nul, found |-> found, bound |-> bound,
     miss |-> miss]

\* the scene whose buffer set_data is called on, and the buffer bound to
\* ARRAY_BUFFER when it is called: none, the globe's or the points'
SceneNames == {"globe", "points"}

PriorBindings == {"none"} \cup SceneNames

SceneBuffer(v, name) == IF name = "globe" THEN v.globe.buffer ELSE v.points.buffer

CallInputs ==
    {CallInput("Shader::new", c, s, l, TRUE, FALSE, TRUE, FALSE, 0) :
        c \in BOOLEAN, s \in BOOLEAN, l \in Logs}
    \cup {CallInput("main.rs Shader::new", TRUE, s, l, r, n, TRUE, FALSE, 0) :
        s \in BOOLEAN, l \in Logs, r \in BOOLEAN, n \in BOOLEAN}
    \cup {CallInput("Program::new", c, s, l, TRUE, FALSE, TRUE, FALSE, 0) :
        c \in BOOLEAN, s \in BOOLEAN, l \in Logs}
    \cup {CallInput("VertexArray::set_attrib", TRUE, TRUE, l, TRUE, FALSE, f, b, 0) :
        l \in Logs, f \in BOOLEAN, b \in BOOLEAN}
    \cup {CallInput("vis.rs VisGl::setup_gl_resources", c, TRUE, <<>>, TRUE, FALSE, f, FALSE, 0) :
        c \in BOOLEAN, f \in BOOLEAN}
    \cup {CallInput("VisGl::setup_gl", TRUE, TRUE, <<>>, TRUE, FALSE, TRUE, FALSE, m) :
        m \in 0..6}
    \cup {CallInput("Buffer::set_data", TRUE, TRUE, <<>>, TRUE, FALSE, TRUE, FALSE, 0)
              @@ [on |-> o, prior |-> p, n |-> n] :
        o \in SceneNames, p \in PriorBindings, n \in PointData}

\* a built scene, for the calls that need handles to name
BuiltScene == VisGl_new(NewContext, "ok", "ok")

\* the context in which the call is made: the scene is built, the driver
\* will report `log`; for Program::new two more shaders are compiled, the
\* newest two objects; for `bound` a new buffer and a new vertex array are
\* bound
Prepared(c) ==
    Let([BuiltScene.gl EXCEPT !.diagnostic = c.log], LAMBDA g :
        IF c.op = "Program::new"
        THEN Shader_new(Shader_new(g, TRUE, TRUE).gl, TRUE, TRUE).gl
        ELSE IF c.op = "Buffer::set_data"
        THEN IF c.prior = "none"
             THEN [g EXCEPT !.array_buffer = 0]
             ELSE Buffer_bind(g, SceneBuffer(BuiltScene.vis, c.prior))
        ELSE IF c.bound
        THEN Let(Buffer_new(g, "STATIC_DRAW", TRUE), LAMBDA b :
             Let(VertexArray_new(b.gl, TRUE), LAMBDA v :
                 VertexArray_bind(Buffer_bind(v.gl, b.buffer), v.id)))
        ELSE g)

InitCalls ==
    /\ target \in Targets
    /\ phase = "call"
    /\ \E c \in CallInputs : built = <<c>> /\ gl = Prepared(c)
    /\ vis = BuiltScene.vis
    /\ lastLeft = FALSE
    /\ lastMove = NoMove

\* a call returns: the log keeps the input, the context before the call
\* and the Result
Return(r) ==
    /\ phase' = "returned"
    /\ gl' = r.gl
    /\ built' = <<[input |-> built[1], before |-> gl,
                   result |-> [ok |-> r.ok, id |-> r.id, err |-> r.err]]>>
    /\ UNCHANGED <<target, vis, lastLeft, lastMove>>

ShaderNewCall ==
    /\ phase = "call"
    /\ built[1].op = "Shader::new"
    /\ Return(Shader_new(gl, built[1].created, built[1].success))

ShaderNewFromFileCall ==
    /\ phase = "call"
    /\ built[1].op = "main.rs Shader::new"
    /\ Return(Shader_new_from_file(gl, built[1].readable, built[1].nul,
                                   built[1].success))

\* Program::new on two shaders of the scene's making
ProgramNewCall ==
    /\ phase = "call"
    /\ built[1].op = "Program::new"
    /\ \E vs \in {Len(gl.objs) - 1}, fs \in {Len(gl.objs)} :
           Return(Program_new(gl, vs, fs, built[1].created, built[1].success))

SetAttribCall ==
    /\ phase = "call"
    /\ built[1].op = "VertexArray::set_attrib"
    /\ \E r \in {VertexArray_set_attrib(gl, vis.globe.program, built[1].found)} :
           Return([gl |-> r.gl, ok |-> r.ok, id |-> 0, err |-> r.err])

\* a call ends: by returning, or by a panic, which unwinds past the caller
\* and returns nothing
ReturnOrPanic(r) ==
    /\ phase' = IF r.panicked THEN "panicked" ELSE "returned"
    /\ gl' = r.gl
    /\ built' = <<[input |-> built[1], before |-> gl,
                   result |-> [ok |-> r.ok, id |-> 0, err |-> r.err]]>>
    /\ UNCHANGED <<target, vis, lastLeft, lastMove>>

SetupGlResourcesCall ==
    /\ phase = "call"
    /\ built[1].op = "vis.rs VisGl::setup_gl_resources"
    /\ ReturnOrPanic(Vis_setup_gl_resources(vis, gl, built[1].created,
                                            built[1].found))

SetupGlCall ==
    /\ phase = "call"
    /\ built[1].op = "VisGl::setup_gl"
    /\ \E r \in {VisGl_setup_gl(vis, gl, built[1].miss)} :
           ReturnOrPanic([gl |-> r.gl, ok |-> r.ok, panicked |-> r.panicked,
                          err |-> NoError])

\* Buffer::set_data(&mut self, gl, data) on a buffer of the scene
BufferSetDataCall ==
    /\ phase = "call"
    /\ built[1].op = "Buffer::set_data"
    /\ \E r \in {Buffer_set_data(gl, SceneBuffer(vis, built[1].on), built[1].n)} :
           /\ phase' = "returned"
           /\ gl' = r.gl
           /\ vis' = IF built[1].on = "globe"
                     THEN [vis EXCEPT !.globe.buffer = r.buffer]
                     ELSE [vis EXCEPT !.points.buffer = r.buffer]
           /\ built' = <<[input |-> built[1], before |-> gl,
                          result |-> [ok |-> TRUE, id |-> r.buffer.id,
                                      err |-> NoError]]>>
    /\ UNCHANGED <<target, lastLeft, lastMove>>

NextCalls ==
    \/ BufferSetDataCall
    \/ ShaderNewCall
    \/ ShaderNewFromFileCall
    \/ ProgramNewCall
    \/ SetAttribCall
    \/ SetupGlResourcesCall
    \/ SetupGlCall

SpecCalls == InitCalls /\ [][NextCalls]_vars

\* ------------------------------------------- single calls of icosphere.rs

\* the mesh of test_subdivide_icosphere
TestVertices ==
    << <<Zero32, Zero32, Zero32>>, <<One32, Zero32, Zero32>>,
       <<Zero32, One32, Zero32>> >>

\* the triangle lists over the three test vertices, of up to MaxTriangles
\* triangles; triangles may share vertices and may repeat
TestTriangleLists ==
    UNION {[1..n -> [1..3 -> 0..2]] : n \in 0..MaxTriangles}

\* a call of get_icosphere or of subdivide_icosphere on its way: `stage`
\* is the loop the call is in, `pass` the passes of `for _ in 0..iterations`
\* done, `i` the next triangle of the list the inner loop walks
IcosphereCall(op, iterations, stage, vertices, triangles) ==
    [op |-> op, iterations |-> iterations, stage |-> stage, pass |-> 0,
     vertices |-> vertices, triangles |-> triangles, i |-> 1,
     vert |-> vertices, tri |-> triangles,
     next_vert |-> <<>>, next_tri |-> <<>>, buffer |-> <<>>]

IcosphereInputs ==
    {IcosphereCall("get_icosphere", n, "loop", BaseVertices, BaseTriangles) :
        n \in 0..MaxIterations}
    \cup {IcosphereCall("subdivide_icosphere", 0, "subdivide", TestVertices, t) :
        t \in TestTriangleLists}

InitIcosphere ==
    /\ target = "native"
    /\ phase = "call"
    /\ gl = NewContext
    /\ vis = NoVis
    /\ \E c \in IcosphereInputs : built = <<c>>
    /\ lastLeft = FALSE
    /\ lastMove = NoMove

\* a step of the call: only the call's locals change
IcosphereStep(c) ==
    /\ phase = "call"
    /\ built' = <<c>>
    /\ UNCHANGED <<target, phase, gl, vis, lastLeft, lastMove>>

IcosphereReturn(c) ==
    /\ phase = "call"
    /\ phase' = "returned"
    /\ built' = <<c>>
    /\ UNCHANGED <<target, gl, vis, lastLeft, lastMove>>

\* `for _ in 0..iterations`: another pass, subdivide_icosphere is called
SubdivideCalled ==
    /\ built[1].stage = "loop"
    /\ built[1].pass < built[1].iterations
    /\ IcosphereStep([built[1] EXCEPT !.stage = "subdivide", !.i = 1,
                                      !.vert = built[1].vertices,
                                      !.tri = built[1].triangles,
                                      !.next_vert = <<>>, !.next_tri = <<>>])

\* `for t in tri`, one pass
SubdividePass ==
    /\ built[1].stage = "subdivide"
    /\ built[1].i <= Len(built[1].tri)
    /\ \E r \in {subdivide_pass(built[1].vert, built[1].tri[built[1].i],
                                 built[1].next_vert, built[1].next_tri)} :
           IcosphereStep([built[1] EXCEPT !.i = @ + 1,
                                          !.next_vert = r.next_vert,
                                          !.next_tri = r.next_tri])

\* subdivide_icosphere returns (next_vert, next_tri): to get_icosphere,
\* which assigns them to (vertices, triangles), or to the caller
SubdivideReturned ==
    /\ built[1].stage = "subdivide"
    /\ built[1].i > Len(built[1].tri)
    /\ IF built[1].op = "get_icosphere"
       THEN IcosphereStep([built[1] EXCEPT !.stage = "loop", !.pass = @ + 1,
                                           !.vertices = built[1].next_vert,
                                           !.triangles = built[1].next_tri])
       ELSE IcosphereReturn([built[1] EXCEPT !.stage = "returned",
                                             !.vertices = built[1].next_vert,
                                             !.triangles = built[1].next_tri])

\* `for _ in 0..iterations` is over; `let mut buffer = vec![]`
BufferStarted ==
    /\ built[1].stage = "loop"
    /\ built[1].pass = built[1].iterations
    /\ IcosphereStep([built[1] EXCEPT !.stage = "buffer", !.i = 1,
                                      !.buffer = <<>>])

\* `for tri in triangles`, one pass
BufferPass ==
    /\ built[1].stage = "buffer"
    /\ built[1].i <= Len(built[1].triangles)
    /\ IcosphereStep([built[1] EXCEPT
           !.i = @ + 1,
           !.buffer = buffer_pass(built[1].vertices,
                                  built[1].triangles[built[1].i], @)])

\* get_icosphere returns buffer
BufferReturned ==
    /\ built[1].stage = "buffer"
    /\ built[1].i > Len(built[1].triangles)
    /\ IcosphereReturn([built[1] EXCEPT !.stage = "returned"])

NextIcosphere ==
    \/ SubdivideCalled
    \/ SubdividePass
    \/ SubdivideReturned
    \/ BufferStarted
    \/ BufferPass
    \/ BufferReturned

SpecIcosphere == InitIcosphere /\ [][NextIcosphere]_vars

\* -------------------------------------------------------------- properties

Handles == 1..Len(gl.objs)

DeletedOnce(id) == gl.objs[id].deletes = 1

\* the handles a scene struct owns
SceneHandles(scene) == {scene.program, scene.buffer.id, scene.vao}

\* C1: whenever Program::new_from_sources has compiled both stages, each of
\* the two stage handles has been deleted exactly once when it returns,
\* whether linking succeeded or failed
C1_StagesReleased ==
    \A i \in 1..Len(built) :
        (built[i].vertex_shader # 0 /\ built[i].fragment_shader # 0)
            => /\ DeletedOnce(built[i].vertex_shader)
               /\ DeletedOnce(built[i].fragment_shader)

\* a call that compiled both stages and failed to link has returned, with
\* both stages deleted
C1_Witness ==
    \E i \in 1..Len(built) :
        /\ built[i].fragment_shader # 0
        /\ ~built[i].ok
        /\ DeletedOnce(built[i].vertex_shader)
        /\ DeletedOnce(built[i].fragment_shader)

\* C2: when Program::new_from_sources returns an error, every shader and
\* program handle the backend created during the call has been deleted
\* (as many deletes as creates)
C2_FailedCallReleasesAll ==
    \A i \in 1..Len(built) :
        ~built[i].ok => \A id \in built[i].first..built[i].last : DeletedOnce(id)

\* C3: when scene construction fails part-way, every buffer, vertex array
\* and linked program acquired earlier in that construction has been
\* released when the error is returned
C3_FailedConstructionReleasesAll ==
    phase = "failed" =>
        \A id \in Handles :
            (\/ gl.objs[id].kind \in {"buffer", "vertex_array"}
             \/ (gl.objs[id].kind = "program" /\ gl.objs[id].status))
                => DeletedOnce(id)

\* C4: once the event loop has ended, every handle the scene acquired
\* (program, buffer and vertex array of the globe and of the points) has
\* been deleted exactly once, on the native and on the web loop
C4_TeardownReleasesAll ==
    phase = "destroyed" =>
        \A id \in SceneHandles(vis.globe) \cup SceneHandles(vis.points) :
            DeletedOnce(id)

\* C5: no call ever names a handle that has been deleted, and no handle is
\* deleted twice: released is terminal
C5_ReleasedIsTerminal ==
    /\ ~gl.misuse
    /\ \A id \in Handles : gl.objs[id].deletes <= 1

\* the native loop has ended after drawing: the scene's programs and
\* buffers are released
C5_Witness ==
    /\ phase = "destroyed"
    /\ target = "native"
    /\ gl.lastDraw.mode = "POINTS"
    /\ \A id \in {vis.globe.program, vis.globe.buffer.id,
                   vis.points.program, vis.points.buffer.id} : DeletedOnce(id)

\* a step of the loop that handles a pointer-move, a scroll, a button event
\* (CursorMoved records its position in lastMove)
IsCursorMoved == \E m \in 0..2 : CursorMoved(lastMove'.x, lastMove'.y, m)

IsMouseWheel ==
    \E e \in ScrollEncodings, v \in ScrollValues, m \in 0..2 : MouseWheel(e, v, m)

IsMouseInput ==
    \E b \in WindowButtons, s \in {"Pressed", "Released"} : MouseInput(b, s)

\* the pointer-move being handled differs from the pointer-move before it
MovedFromLastMove ==
    /\ lastMove.seen
    /\ <<lastMove'.x, lastMove'.y>> # <<lastMove.x, lastMove.y>>

\* C6: while a drag is active every pointer-move with a non-zero delta
\* relative to the previous pointer-move changes the model matrix, and
\* while no drag is active no pointer-move changes it
C6_DragRotatesEveryMove ==
    [][IsCursorMoved =>
         /\ (vis.mouse.dragging /\ MovedFromLastMove)
                => vis'.mvp.model.data # vis.mvp.model.data
         /\ ~vis.mouse.dragging
                => vis'.mvp.model.data = vis.mvp.model.data]_vars

\* C7: once a pointer-move has been handled the stored pointer position is
\* the position of the most recent pointer-move, whether or not a drag is
\* active and whether or not the push of the model matrix succeeded
C7_PositionFollowsMove ==
    lastMove.seen => (vis.mouse.x = lastMove.x /\ vis.mouse.y = lastMove.y)

\* C8: the drag flag is the pressed value of the most recent Left button
\* event (false before any); other buttons, pointer-moves and scrolls leave
\* it unchanged; a button event changes neither the stored position nor a
\* matrix, in the controller or in a program
C8_DragFlagFollowsLeftButton ==
    /\ [](vis.mouse.dragging = lastLeft)
    /\ [][/\ (IsCursorMoved \/ IsMouseWheel)
                => vis'.mouse.dragging = vis.mouse.dragging
          /\ (\E b \in WindowButtons \ {"Left"}, s \in {"Pressed", "Released"} :
                  MouseInput(b, s))
                => vis'.mouse.dragging = vis.mouse.dragging
          /\ IsMouseInput
                => /\ vis'.mouse.x = vis.mouse.x
                   /\ vis'.mouse.y = vis.mouse.y
                   /\ vis'.mvp = vis.mvp
                   /\ gl' = gl]_vars

\* a drag is active after a Left press that followed a pointer-move
C8_Witness ==
    /\ phase = "running"
    /\ lastLeft
    /\ vis.mouse.dragging
    /\ lastMove.seen

ScenePrograms == {vis.globe.program, vis.points.program}

HeldBy(p, name) == gl.objs[p].uniforms[name]

SceneBuffers == {vis.globe.buffer, vis.points.buffer}

\* C10: Buffer.len is the number of floats of the most recent set_data on
\* that buffer (0 if none), and a draw of the globe (of the points) is
\* issued with count len / 3 of the globe's (the points') buffer
C10_LenTracksUpload ==
    phase \notin {"start", "failed", "start_panicked"} =>
        /\ \A b \in SceneBuffers : b.len = gl.objs[b.id].size
        /\ gl.lastDraw.mode = "TRIANGLES"
               => gl.lastDraw.count = vis.globe.buffer.len \div 3
        /\ gl.lastDraw.mode = "POINTS"
               => gl.lastDraw.count = vis.points.buffer.len \div 3

\* the points were drawn after an upload of three floats: one vertex
C10_Witness ==
    /\ gl.lastDraw.mode = "POINTS"
    /\ gl.lastDraw.count = 1
    /\ vis.points.buffer.len = 3
    /\ vis.globe.buffer.len = icosphere_len(GLOBE_ITERATIONS)

\* the call made alone has returned
Returned(ops) == phase = "returned" /\ built[1].input.op \in ops

\* the handle the backend created during the call
CreatedHandle == Len(built[1].before.objs) + 1

\* the backend was asked for, and reported, a compile status
CompileReported ==
    IF built[1].input.op = "Shader::new"
    THEN built[1].input.created
    ELSE built[1].input.readable /\ ~built[1].input.nul

\* C11 as stated: Shader::new (gl_wrap.rs and main.rs) returns
\* Err(Compilation(log)) exactly when the backend reports a failed compile,
\* with the backend's log verbatim, and Ok(handle) exactly when it reports
\* success
C11_CompilationExactlyOnFailedStatus ==
    Returned({"Shader::new", "main.rs Shader::new"}) =>
        /\ built[1].result.err.variant = "Compilation"
               <=> (CompileReported /\ ~built[1].input.success)
        /\ built[1].result.err.variant = "Compilation"
               => built[1].result.err.log = built[1].input.log
        /\ built[1].result.ok <=> (CompileReported /\ built[1].input.success)
        /\ built[1].result.ok
               => (built[1].result.id = CreatedHandle
                   /\ gl.objs[CreatedHandle].kind = "shader")

\* the info log is text: no byte of it is outside UTF-8
LogDecodes == \A i \in 1..Len(built[1].input.log) : built[1].input.log[i] # 255

\* C11 amended: as stated for gl_wrap.rs; in main.rs Err(Compilation(log))
\* is returned exactly when the backend reports a failed compile and the
\* info log is valid UTF-8 (an undecodable log gives Err(Utf8))
C11_CompilationOnFailedStatusWithText ==
    Returned({"Shader::new", "main.rs Shader::new"}) =>
        /\ built[1].result.err.variant = "Compilation"
               <=> /\ CompileReported
                   /\ ~built[1].input.success
                   /\ (built[1].input.op = "main.rs Shader::new" => LogDecodes)
        /\ built[1].result.err.variant = "Compilation"
               => built[1].result.err.log = built[1].input.log
        /\ built[1].result.ok <=> (CompileReported /\ built[1].input.success)
        /\ built[1].result.ok
               => (built[1].result.id = CreatedHandle
                   /\ gl.objs[CreatedHandle].kind = "shader")

\* Shader::new of gl_wrap.rs has returned Err(Compilation) with a log that
\* is not empty
C11_Witness ==
    /\ Returned({"Shader::new"})
    /\ built[1].result.err.variant = "Compilation"
    /\ built[1].result.err.log = <<65>>

\* C12 as stated: Program::new returns Err(Linking(log)) exactly when the
\* backend reports a failed link, with the backend's program info log, and
\* returns Ok with the program handle in every other case
C12_LinkingElseOk ==
    Returned({"Program::new"}) =>
        /\ built[1].result.err.variant = "Linking"
               <=> (built[1].input.created /\ ~built[1].input.success)
        /\ built[1].result.err.variant = "Linking"
               => built[1].result.err.log = built[1].input.log
        /\ built[1].result.err.variant # "Linking"
               => /\ built[1].result.ok
                  /\ built[1].result.id = CreatedHandle
                  /\ gl.objs[CreatedHandle].kind = "program"

\* C12 amended: once create_program has handed back a handle, Program::new
\* returns Err(Linking(log)) exactly when the backend reports a failed
\* link, with the backend's program info log, and Ok with that handle
\* otherwise; when create_program fails it returns the backend's message as
\* Err(String) and nothing is linked
C12_LinkingElseOkOnceCreated ==
    Returned({"Program::new"}) =>
        IF built[1].input.created
        THEN /\ built[1].result.err.variant = "Linking" <=> ~built[1].input.success
             /\ built[1].result.err.variant = "Linking"
                    => built[1].result.err.log = built[1].input.log
             /\ built[1].result.err.variant # "Linking"
                    => /\ built[1].result.ok
                       /\ built[1].result.err = NoError
                       /\ built[1].result.id = CreatedHandle
                       /\ gl.objs[CreatedHandle].kind = "program"
                       /\ gl.objs[CreatedHandle].status
        ELSE /\ ~built[1].result.ok
             /\ built[1].result.err.variant = "String"
             /\ gl = built[1].before

\* Program::new has returned Err(Linking) with the log the backend held
C12_Witness ==
    /\ Returned({"Program::new"})
    /\ built[1].result.err.variant = "Linking"
    /\ built[1].result.err.log = <<65>>
    /\ gl.objs[CreatedHandle].kind = "program"

\* C13: VertexArray::set_attrib returns Err(Location) exactly when the
\* backend does not find the attribute, and then leaves the context as it
\* was (no attribute pointer configured, no array enabled); when the
\* attribute is found the bound vertex array takes the bound buffer as the
\* attribute's source and Ok is returned
C13_LocationErrorConfiguresNothing ==
    Returned({"VertexArray::set_attrib"}) =>
        /\ built[1].result.err.variant = "Location" <=> ~built[1].input.found
        /\ built[1].result.ok <=> built[1].input.found
        /\ ~built[1].input.found => gl = built[1].before
        /\ built[1].input.found =>
               /\ built[1].result.err = NoError
               /\ gl = vertex_attrib(built[1].before)
               /\ built[1].input.bound =>
                      gl.objs[gl.vertex_array].attrib = gl.array_buffer

\* set_attrib has returned Err(Location) with a buffer and a vertex array
\* bound, and the vertex array has no attribute source
C13_Witness ==
    /\ Returned({"VertexArray::set_attrib"})
    /\ built[1].result.err.variant = "Location"
    /\ gl.vertex_array # 0
    /\ gl.array_buffer # 0
    /\ gl.objs[gl.vertex_array].attrib = 0

\* C14: no answer of the backend (a handle not created, an attribute or a
\* uniform not found) makes the setup of the draw loop panic: the failure
\* comes back to the caller as an error value
C14_SetupNeverPanics == phase # "panicked"

\* get_icosphere or subdivide_icosphere has returned
IcosphereReturned(op) == phase = "returned" /\ built[1].op = op

\* C15: get_icosphere(n) returns exactly 3 * 3 * 20 * 4^n floats, which is
\* 20 * 4^n triangles of three vertices of three floats
C15_BufferLength ==
    IcosphereReturned("get_icosphere") =>
        /\ Len(built[1].triangles) = 20 * 4^built[1].iterations
        /\ Len(built[1].buffer) = 3 * 3 * 20 * 4^built[1].iterations
        /\ Len(built[1].buffer) = icosphere_len(built[1].iterations)

\* get_icosphere(MaxIterations) has returned, after at least one pass of
\* subdivision
C15_Witness ==
    /\ IcosphereReturned("get_icosphere")
    /\ built[1].iterations = MaxIterations
    /\ built[1].pass > 0
    /\ Len(built[1].buffer) > 180

\* the three corners the i-th input triangle put into the vertices
\* returned
Corners(i) == SubSeq(built[1].vertices, 6 * (i - 1) + 1, 6 * (i - 1) + 3)

\* C16: on T triangles subdivide_icosphere returns exactly 6 * T vertices
\* and 4 * T triangles; each input triangle contributes its own three
\* corners and three midpoints, which its four triangles index, also when
\* it shares vertices with another triangle (nothing is deduplicated)
C16_SixVerticesFourTriangles ==
    IcosphereReturned("subdivide_icosphere") =>
        /\ Len(built[1].vertices) = 6 * Len(built[1].tri)
        /\ Len(built[1].triangles) = 4 * Len(built[1].tri)
        /\ \A i \in 1..Len(built[1].tri) :
               /\ Corners(i) = <<At(built[1].vert, built[1].tri[i][1]),
                                 At(built[1].vert, built[1].tri[i][2]),
                                 At(built[1].vert, built[1].tri[i][3])>>
               /\ \A k \in 1..4 : \A c \in 1..3 :
                      built[1].triangles[4 * (i - 1) + k][c] \in
                          (6 * (i - 1))..(6 * (i - 1) + 5)

\* subdivide_icosphere has returned for two triangles that are the same
\* three vertices, and the vertices are there twice
C16_Witness ==
    /\ IcosphereReturned("subdivide_icosphere")
    /\ Len(built[1].tri) = 2
    /\ built[1].tri[1] = built[1].tri[2]
    /\ Len(built[1].vertices) = 12
    /\ Corners(1) = Corners(2)

\* the i-th vertex of the buffer returned (i from 0): three floats
BufferVertex(i) == SubSeq(built[1].buffer, 3 * i + 1, 3 * i + 3)

\* (x * x + y * y + z * z).sqrt() in f32, as test_icosphere_vertex_normalized
\* computes it
VertexLength(v) ==
    f32_sqrt(f32_add(f32_add(f32_mul(v[1], v[1]), f32_mul(v[2], v[2])),
                     f32_mul(v[3], v[3])))

\* |len - 1.0|
LengthError(v) == f32_abs(f32_sub(VertexLength(v), One32))

\* the f32 nearest to 1e-6, and 2^-23, the distance from 1.0 to the next f32
Epsilon32 == F32(0, 8796093, -43)
Ulp32 == F32(0, 2^23, -46)

\* C17: every vertex of the buffer get_icosphere(n) returns has length 1
\* within 1e-6, the length computed in f32 as the test computes it. The
\* computed length is in fact within 2^-23 of 1.0; three roundings of the
\* sum and one of the root put it within 2^-22 of the exact length, so the
\* exact length is within 4e-7 of 1.
C17_VerticesNormalized ==
    IcosphereReturned("get_icosphere") =>
        \A i \in 0..(Len(built[1].buffer) \div 3 - 1) :
            /\ f32_lt(LengthError(BufferVertex(i)), Epsilon32)
            /\ ~f32_lt(Ulp32, LengthError(BufferVertex(i)))

\* get_icosphere(MaxIterations) has returned with a vertex that normalize
\* made, whose computed length is not exactly 1.0
C17_Witness ==
    /\ IcosphereReturned("get_icosphere")
    /\ built[1].iterations = MaxIterations
    /\ built[1].pass > 0
    /\ \E i \in 0..(Len(built[1].buffer) \div 3 - 1) :
           /\ BufferVertex(i) \notin {BaseVertices[k] : k \in 1..12}
           /\ LengthError(BufferVertex(i)) # Zero32

\* C18: every globe draw (the triangle draw) is issued with the globe's
\* program, buffer and vertex array bound, whatever was bound in between,
\* and draws the vertex count the globe's buffer tracks
C18_GlobeDrawBindsGlobe ==
    gl.lastDraw.mode = "TRIANGLES" =>
        /\ gl.lastDraw.program = vis.globe.program
        /\ gl.lastDraw.array_buffer = vis.globe.buffer.id
        /\ gl.lastDraw.vertex_array = vis.globe.vao
        /\ gl.lastDraw.count = vis.globe.buffer.len \div 3

\* the draw call Points::draw ends with: points, with the points' own
\* program, buffer and vertex array bound
PointsDrawn(g, points, count) ==
    g.lastDraw = [mode |-> "POINTS", count |-> count,
                  program |-> points.program,
                  array_buffer |-> points.buffer.id,
                  vertex_array |-> points.vao]

\* C19: Points::draw with Some(d) uploads d to the points buffer before it
\* draws, so that |d| / 3 points are drawn; with None it leaves what the
\* buffer holds and the tracked length as they are and draws the count
\* uploaded before
C19_UploadOnlyWithData ==
    [][/\ \A n \in PointData :
             PointsDraw(Some(n)) =>
                 /\ gl'.objs[vis.points.buffer.id].size = n
                 /\ vis'.points.buffer.len = n
                 /\ PointsDrawn(gl', vis'.points, n \div 3)
       /\ PointsDraw(None) =>
             /\ gl'.objs[vis.points.buffer.id].size
                    = gl.objs[vis.points.buffer.id].size
             /\ vis'.points.buffer = vis.points.buffer
             /\ PointsDrawn(gl', vis'.points, vis.points.buffer.len \div 3)]_vars

\* a point has been drawn from an upload of three floats
C19_Witness ==
    /\ phase = "running"
    /\ vis.points.buffer.len = 3
    /\ gl.objs[vis.points.buffer.id].size = 3
    /\ PointsDrawn(gl, vis.points, 1)

\* C20: the delta VisGl::mouse_wheel gets is never the raw value of the
\* scroll event, for a line delta and for a pixel delta alike: the view
\* matrix after a scroll that is not zero is not the one a zoom by the raw
\* value gives
C20_ScrollNormalized ==
    [][\A e \in ScrollEncodings, v \in ScrollValues :
          (v # 0 /\ MouseWheel(e, v, 0)) =>
              vis'.mvp.view.data # zoom_from_scroll(vis.mvp.view.data, v)]_vars

\* the input triangles a pass of subdivide_icosphere has dealt with: those
\* before the i-th, while the pass runs and when it has returned to a
\* caller other than get_icosphere
Subdivided ==
    IF built[1].stage = "subdivide" \/ built[1].op = "subdivide_icosphere"
    THEN 1..(built[1].i - 1)
    ELSE {}

\* corner k of the i-th input triangle, and the normalized midpoint of its
\* corners a and b
Parent(i, k) == At(built[1].vert, built[1].tri[i][k])

Mid(i, a, b) == normalize(midpoint(Parent(i, a), Parent(i, b)))

\* the k-th triangle appended for the i-th input triangle, as indices and
\* as the vertices they name
EmittedIndices(i, k) == built[1].next_tri[4 * (i - 1) + k]

Emitted(i, k) ==
    <<At(built[1].next_vert, EmittedIndices(i, k)[1]),
      At(built[1].next_vert, EmittedIndices(i, k)[2]),
      At(built[1].next_vert, EmittedIndices(i, k)[3])>>

\* C21 as stated: for an input triangle (v0, v1, v2) a pass appends, in
\* this order, (v0, mid01, mid20), (mid01, v1, mid12), (mid20, mid12, v2),
\* (mid01, mid12, mid20)
C21_FourTrianglesAsStated ==
    \A i \in Subdivided :
        /\ Emitted(i, 1) = <<Parent(i, 1), Mid(i, 1, 2), Mid(i, 3, 1)>>
        /\ Emitted(i, 2) = <<Mid(i, 1, 2), Parent(i, 2), Mid(i, 2, 3)>>
        /\ Emitted(i, 3) = <<Mid(i, 3, 1), Mid(i, 2, 3), Parent(i, 3)>>
        /\ Emitted(i, 4) = <<Mid(i, 1, 2), Mid(i, 2, 3), Mid(i, 3, 1)>>

\* C21 amended: the third triangle starts at mid12: a pass appends, in
\* this order, (v0, mid01, mid20), (mid01, v1, mid12), (mid12, v2, mid20),
\* (mid01, mid12, mid20)
C21_FourTrianglesInCodeOrder ==
    \A i \in Subdivided :
        /\ Emitted(i, 1) = <<Parent(i, 1), Mid(i, 1, 2), Mid(i, 3, 1)>>
        /\ Emitted(i, 2) = <<Mid(i, 1, 2), Parent(i, 2), Mid(i, 2, 3)>>
        /\ Emitted(i, 3) = <<Mid(i, 2, 3), Parent(i, 3), Mid(i, 3, 1)>>
        /\ Emitted(i, 4) = <<Mid(i, 1, 2), Mid(i, 2, 3), Mid(i, 3, 1)>>

\* a pass over the icosahedron has subdivided a face, whose corners and
\* midpoints are six different vertices, and the third triangle starts at
\* mid12
C21_Witness ==
    /\ built[1].op = "get_icosphere"
    /\ built[1].stage = "subdivide"
    /\ built[1].i > 1
    /\ Cardinality({Parent(1, 1), Parent(1, 2), Parent(1, 3),
                    Mid(1, 1, 2), Mid(1, 2, 3), Mid(1, 3, 1)}) = 6
    /\ Emitted(1, 3) = <<Mid(1, 2, 3), Parent(1, 3), Mid(1, 3, 1)>>

\* a pass of subdivide_icosphere has walked its whole list
PassOver ==
    /\ built[1].stage = "subdivide" \/ built[1].op = "subdivide_icosphere"
    /\ built[1].i > Len(built[1].tri)

\* the boundary of the i-th input triangle with its midpoints, in the
\* parent's sense: v0, mid01, v1, mid12, v2, mid20
Boundary(i) ==
    <<Parent(i, 1), Mid(i, 1, 2), Parent(i, 2), Mid(i, 2, 3), Parent(i, 3),
      Mid(i, 3, 1)>>

\* t is three vertices of the cycle b, in the cycle's order, from any start
InSenseOf(t, b) ==
    \E p, q, r \in 1..Len(b) :
        /\ p < q /\ q < r
        /\ t \in {<<b[p], b[q], b[r]>>, <<b[q], b[r], b[p]>>, <<b[r], b[p], b[q]>>}

\* the position on the boundary cycle of the vertex at place n of a block
\* of six: the corners are at places 0, 1, 2, the midpoints at 3, 4, 5
CyclePosition(n) ==
    CASE n = 0 -> 1 [] n = 3 -> 2 [] n = 1 -> 3 [] n = 4 -> 4
      [] n = 2 -> 5 [] n = 5 -> 6

\* the cycle positions of the k-th triangle appended for the i-th input
EmittedPositions(i, k) ==
    <<CyclePosition(EmittedIndices(i, k)[1] - 6 * (i - 1)),
      CyclePosition(EmittedIndices(i, k)[2] - 6 * (i - 1)),
      CyclePosition(EmittedIndices(i, k)[3] - 6 * (i - 1))>>

\* a . (b x c) in f32: positive for a triangle that is counter-clockwise
\* seen from outside the sphere
TripleProduct(a, b, c) ==
    f32_add(
        f32_sub(f32_mul(a[1], f32_sub(f32_mul(b[2], c[3]), f32_mul(b[3], c[2]))),
                f32_mul(a[2], f32_sub(f32_mul(b[1], c[3]), f32_mul(b[3], c[1])))),
        f32_mul(a[3], f32_sub(f32_mul(b[1], c[2]), f32_mul(b[2], c[1]))))

\* the t-th triangle of the buffer returned (t from 0), as three vertices
BufferTriangle(t) ==
    <<BufferVertex(3 * t), BufferVertex(3 * t + 1), BufferVertex(3 * t + 2)>>

\* C22: subdivision never flips winding. Each of the four triangles
\* appended for an input triangle lists three vertices of the boundary
\* cycle v0, mid01, v1, mid12, v2, mid20 in the order of the cycle, from
\* some start, in every pass; and every triangle of the buffer
\* get_icosphere returns is wound as the faces of the base icosahedron
\* are (counter-clockwise seen from outside), after any number of passes
C22_WindingKept ==
    /\ PassOver =>
           \A i \in Subdivided : \A k \in 1..4 :
               /\ InSenseOf(EmittedPositions(i, k), <<1, 2, 3, 4, 5, 6>>)
               /\ InSenseOf(Emitted(i, k), Boundary(i))
    /\ IcosphereReturned("get_icosphere") =>
           \A t \in 0..(Len(built[1].buffer) \div 9 - 1) :
               f32_lt(Zero32, TripleProduct(BufferTriangle(t)[1],
                                            BufferTriangle(t)[2],
                                            BufferTriangle(t)[3]))

\* get_icosphere has returned after two passes or more, and the last
\* triangle of the buffer, a centre triangle of the last pass, is
\* counter-clockwise
C22_Witness ==
    /\ IcosphereReturned("get_icosphere")
    /\ built[1].pass >= 2
    /\ Len(built[1].buffer) = 9 * Len(built[1].triangles)
    /\ f32_lt(Zero32,
              TripleProduct(BufferTriangle(Len(built[1].triangles) - 1)[1],
                            BufferTriangle(Len(built[1].triangles) - 1)[2],
                            BufferTriangle(Len(built[1].triangles) - 1)[3]))

\* the triangles the loop that fills the buffer has dealt with, counted
\* from 0: those before the i-th of the list
Flattened ==
    IF built[1].op = "get_icosphere" /\ built[1].stage \in {"buffer", "returned"}
    THEN 0..(built[1].i - 2)
    ELSE {}

\* C23: the buffer is the flattening of the final triangle list in
\* triangle order: buffer[9t + 3k + c] = vertices[triangles[t][k]][c] for
\* corner k and component c in 0..2, and nothing more; with iterations = 0
\* the list is the 20 faces over the 12 vertices of the base icosahedron,
\* 180 floats
C23_BufferIsFlattening ==
    /\ Flattened # {} => Len(built[1].buffer) = 9 * (built[1].i - 1)
    /\ \A t \in Flattened : \A k \in 0..2 : \A c \in 0..2 :
           built[1].buffer[9 * t + 3 * k + c + 1]
               = At(At(built[1].vertices, At(At(built[1].triangles, t), k)), c)
    /\ (IcosphereReturned("get_icosphere") /\ built[1].iterations = 0) =>
           /\ built[1].vertices = BaseVertices
           /\ built[1].triangles = BaseTriangles
           /\ Len(built[1].buffer) = 180
           /\ built[1].i = Len(built[1].triangles) + 1

\* get_icosphere(0) has returned: the buffer starts with vertex 0 and
\* vertex 11, the first two corners of the first base face, and ends with
\* vertex 1, the last corner of the last
C23_Witness ==
    /\ IcosphereReturned("get_icosphere")
    /\ built[1].iterations = 0
    /\ SubSeq(built[1].buffer, 1, 6) = <<NegA32, B32, Zero32, NegB32, Zero32, A32>>
    /\ SubSeq(built[1].buffer, 178, 180) = <<A32, B32, Zero32>>

\* every index of every triangle of the list names a vertex of vec
IndicesWithin(tris, vec) ==
    \A t \in 1..Len(tris) : \A c \in 1..3 : tris[t][c] \in 0..(Len(vec) - 1)

\* C27: in the base mesh and after every pass every index of every
\* triangle is below the length of the vertex list, so that neither
\* subdivide_icosphere nor the flattening indexes out of bounds; and the
\* k-th triangle a pass appends (k from 0) names vertices of its own block
\* of six only, indices 6 * floor(k / 4) .. 6 * floor(k / 4) + 5
C27_IndicesInBounds ==
    /\ IndicesWithin(built[1].triangles, built[1].vertices)
    /\ IndicesWithin(built[1].tri, built[1].vert)
    /\ IndicesWithin(built[1].next_tri, built[1].next_vert)
    /\ \A k \in 0..(Len(built[1].next_tri) - 1) : \A c \in 1..3 :
           At(built[1].next_tri, k)[c] \in (6 * (k \div 4))..(6 * (k \div 4) + 5)

\* get_icosphere is back in its loop after a second pass, and the last
\* triangle names the last vertex of the list
C27_Witness ==
    /\ built[1].op = "get_icosphere"
    /\ built[1].stage = "loop"
    /\ built[1].pass = 2
    /\ built[1].triangles[Len(built[1].triangles)][3] = Len(built[1].vertices) - 1

\* C24: the three matrices are mutated independently: no step changes the
\* projection matrix; a scroll step changes nothing of the scene struct
\* but the view matrix (model matrix, pointer position and drag flag stay);
\* a pointer-move step changes at most the model matrix and the pointer
\* position (view matrix, projection matrix and drag flag stay)
C24_MatricesIndependent ==
    [][/\ vis'.mvp.proj = vis.mvp.proj
       /\ IsMouseWheel =>
              /\ vis'.mvp.model = vis.mvp.model
              /\ vis'.mouse = vis.mouse
              /\ vis' = [vis EXCEPT !.mvp.view = vis'.mvp.view]
       /\ IsCursorMoved =>
              /\ vis'.mvp.view = vis.mvp.view
              /\ vis'.mouse.dragging = vis.mouse.dragging
              /\ vis' = [vis EXCEPT !.mvp.model = vis'.mvp.model,
                                    !.mouse.x = vis'.mouse.x,
                                    !.mouse.y = vis'.mouse.y]]_vars

\* the loop runs after a drag has turned the model matrix and a scroll has
\* moved the view matrix, with the pointer away from where it started
C24_Witness ==
    /\ phase = "running"
    /\ vis.mvp.model.data # IDENTITY
    /\ vis.mvp.view.data # look_at_rh
    /\ vis.mvp.proj = MvpMatrices_new_default.proj
    /\ <<vis.mouse.x, vis.mouse.y>> # <<MouseState_new.x, MouseState_new.y>>

\* VisBuilder::start has ended without a constructed scene
StartFailed == phase \in {"failed", "start_panicked"}

\* no draw has been issued and no input handler has touched the scene
LoopNotEntered ==
    /\ gl.lastDraw = NoDraw
    /\ vis.mvp = MvpMatrices_new_default
    /\ vis.mouse = MouseState_new
    /\ ~lastMove.seen

\* C25: if context creation or scene construction fails, VisBuilder::start
\* returns that error, and the event loop is never entered: no input
\* handler and no draw is invoked for a scene whose construction failed
C25_FailureReturnsError ==
    StartFailed => (phase = "failed" /\ LoopNotEntered)

\* the half of the statement that holds on every path: however start
\* ends without a scene, by a returned error or by unwinding, nothing
\* runs afterwards
LoopNeverEnteredAfterFailure ==
    [][StartFailed => UNCHANGED vars]_vars /\ [](StartFailed => LoopNotEntered)

\* C26: Buffer::set_data binds its own buffer before uploading: whatever
\* buffer was bound to ARRAY_BUFFER before the call (none, the same one,
\* another one), the data is in the buffer set_data was called on, every
\* other object holds what it held, and the buffer set_data was called on
\* is the bound one after the call
C26_SetDataLandsInOwnBuffer ==
    Returned({"Buffer::set_data"}) =>
        /\ gl.objs[built[1].result.id].size = built[1].input.n
        /\ SceneBuffer(vis, built[1].input.on).len = built[1].input.n
        /\ \A id \in Handles \ {built[1].result.id} :
               gl.objs[id].size = built[1].before.objs[id].size
        /\ gl.array_buffer = built[1].result.id

\* set_data has returned from a call on the points' buffer made while the
\* globe's buffer was bound, with data of another length than either
\* buffer held
C26_Witness ==
    /\ Returned({"Buffer::set_data"})
    /\ built[1].input.on = "points"
    /\ built[1].before.array_buffer = vis.globe.buffer.id
    /\ built[1].before.array_buffer # built[1].result.id
    /\ built[1].input.n > 0
    /\ built[1].before.objs[built[1].result.id].size # built[1].input.n
    /\ gl.objs[vis.globe.buffer.id].size # built[1].input.n

====
